---------------------------- MODULE Spec2Model ----------------------------
(***************************************************************************)
(* A model of the core of neighborhood_classifier: the neighborhood       *)
(* index (Common/common.py), the target histogram (Common/common.py),     *)
(* the normalizing state machine of RegionsOfInterest, its lookup and its *)
(* cached histogram (RegionOfInterest/regions_of_interest.py), the file   *)
(* parser (Common/data_management.py), the sampler that fills a data set  *)
(* (data_moving.py, Common/data_management.py) and the search of a point  *)
(* in a region (RegionOfInterest/region.py).  Each component has its own  *)
(* specification; the variables of the other components stay idle.        *)
(***************************************************************************)
EXTENDS Integers, Sequences, FiniteSets, TLC

VARIABLES
    \* ---- neighborhood index: one call of get_neighbors(..., use_list=True)
    point_list,      \* the region's points, a sequence of [X, Y]
    point,           \* the queried point: its position in point_list
    num_neighbors,   \* the window size
    neighborhood,    \* the returned list of slots (None or a position of point_list)
    nbr_pc,          \* "call" before the call, "done" after it
    \* ---- histogram: one call of get_histogram(roi_list, targets, count_points)
    roi_list,        \* the regions, a sequence of [name, num_points, points]
    targets,         \* the requested labels
    count_points,    \* the count_points argument
    interned,        \* whether "roi.name is 'background'" is true of an equal string
    histogram,       \* the outcome: [err, map]
    hist_pc,         \* "call" before the call, "done" after it
    \* ---- one RegionsOfInterest object and the calls made on it
    file,            \* what read_data_from_file(path) returns: [rois, num_bands]
    norm_file,       \* what read_normalizing_data(normalizing_path) returns
    rois,            \* self.rois: dict of name -> dict of sub_name -> ROI
    num_bands,       \* self.num_bands
    is_normalized,   \* self.is_normalized
    is_loaded,       \* self.is_loaded
    minimums,        \* self.minimums
    maximums,        \* self.maximums
    means,           \* self.means
    standard_deviations, \* self.standard_deviations
    ds_pc,           \* "new" before __init__, "live" after it, "failed" if it raised
    last,            \* the last call on the object: [op, mode, outcome, pre]
    prev,            \* the call before it
    ops,             \* the number of calls made after __init__
    use_aggregate,   \* self.use_aggregate
    self_histogram,  \* self.histogram: [set, map], unset while it is None
    returned,        \* what the last __getitem__ or get_histogram returned: [kind, val]
    \* ---- one call of read_data_from_file(path)
    header,          \* the file's region declarations: a sequence of [raw_name, num_points]
    body,            \* the lines after the band header: a sequence of [kind, point]
    pos,             \* the next line datafile.readline() returns
    meta_rois,       \* results['rois'] of _read_meta_data: the list of ROI objects
    cur,             \* the region "for roi in rois" is at
    cnt,             \* i of "for i in range(roi.num_points)": records read for it
    res_rois,        \* res_rois of _read_spectral_data
    bands_var,       \* the local variable bands: [bound, val]
    results,         \* what read_data_from_file returns: [rois, num_bands]
    parse_pc,        \* "meta", "spectral", "done" or "error"
    \* ---- _read_meta_data: the RGB line of one region
    roi_rgb_string,  \* _read(datafile, ''): the last three tokens of the line
    roi_rgb,         \* the outcome: [err, rgb]
    rgb_pc,          \* "read" before the line is taken apart, "done" after it
    \* ---- one call of load_data_set_from_regions_of_interest
    roi_obj,         \* the RegionsOfInterest object: [rois, num_bands]
    smp_targets,     \* the targets argument: the caller's list as it is at the call
    targets_list,    \* the caller's list object as it is now
    smp_ratios,      \* targets_background_ratios: [given, list]
    neighborhood_size, \* the window size
    have_background, \* the have_background argument
    smp_module,      \* the module whose helpers run: "data_management" or "data_moving"
    data_set,        \* the outcome: [err, targets, dim, feasible_sizes, warned,
                     \*               probabilities, samples]
    smp_pc,          \* "call" before the call, "done" after it
    \* ---- one ROI object: sort and find_point
    roi_points,      \* self.points: a sequence of [identity, X, Y]
    sorted_mode,     \* self.sorted_mode
    query,           \* the arguments of find_point: [x, y, mode, closest]
    bs_i,            \* i of _binary_search
    bs_j,            \* j of _binary_search
    bs_point,        \* point of _binary_search: None or a position of roi_points
    found,           \* what find_point returned: [kind, at]
    fp_pc            \* "ready", "search" inside the loop of _binary_search, "done"

nbrVars  == <<point_list, point, num_neighbors, neighborhood, nbr_pc>>
histVars == <<roi_list, targets, count_points, interned, histogram, hist_pc>>
dsVars   == <<file, norm_file, rois, num_bands, is_normalized, is_loaded, minimums,
              maximums, means, standard_deviations, ds_pc, last, prev, ops,
              use_aggregate, self_histogram, returned>>
parseVars == <<header, body, pos, meta_rois, cur, cnt, res_rois, bands_var, results,
               parse_pc>>
rgbVars  == <<roi_rgb_string, roi_rgb, rgb_pc>>
smpVars  == <<roi_obj, smp_targets, targets_list, smp_ratios, neighborhood_size,
              have_background, smp_module, data_set, smp_pc>>
fpVars   == <<roi_points, sorted_mode, query, bs_i, bs_j, bs_point, found, fp_pc>>
vars     == <<nbrVars, histVars, dsVars, parseVars, rgbVars, smpVars, fpVars>>

-----------------------------------------------------------------------------
(* Bounds of the model *)

MaxCoord  == 2      \* pixel coordinates are drawn from 0..MaxCoord
MaxPoints == 2      \* points of a region in the neighborhood specification
MaxWindow == 3      \* window sizes are drawn from 1..MaxWindow
MaxRois   == 2      \* regions handed to get_histogram
MaxCount  == 2      \* declared point count of a region handed to get_histogram
MaxOps    == 2      \* calls made on a RegionsOfInterest object after __init__
MaxLines    == 3    \* lines of a file after its band header
MaxDeclared == 2    \* declared point count of a region of a file
MaxRegion == 3      \* points of a region find_point searches

-----------------------------------------------------------------------------
(* Python helpers *)

\* Python's None in a list of points: a point is a position 1.. of its list
None == 0

\* int(n / 2) for n >= 0
Half(n) == n \div 2

\* list[i] = v with Python's index rule: a negative index counts from the end,
\* an index outside -len..len-1 raises IndexError.  The list is 1-based here.
PyStore(list, i, v) ==
    LET n == Len(list) IN
    IF i >= 0 /\ i < n THEN [err |-> "none", list |-> [list EXCEPT ![i + 1] = v]]
    ELSE IF i < 0 /\ i >= 0 - n THEN [err |-> "none", list |-> [list EXCEPT ![n + i + 1] = v]]
    ELSE [err |-> "IndexError", list |-> list]

\* An insertion-ordered dict: a sequence of <<key, value>> with distinct keys
DictHas(d, k) == \E j \in 1..Len(d) : d[j][1] = k

DictPos(d, k) == CHOOSE j \in 1..Len(d) : d[j][1] = k

DictGet(d, k) == d[DictPos(d, k)][2]

\* d[k] = v
DictSet(d, k, v) ==
    IF DictHas(d, k) THEN [d EXCEPT ![DictPos(d, k)] = <<k, v>>] ELSE Append(d, <<k, v>>)

\* A float, kept exact: the rational <<n, d>> in lowest terms with d > 0.
\* d = 0 stands for a non-finite float (inf, -inf, nan).
Abs(n) == IF n < 0 THEN 0 - n ELSE n

RECURSIVE GCD(_, _)
GCD(a, b) == IF b = 0 THEN a ELSE GCD(b, a % b)

Rat(n, d) ==
    IF d = 0 THEN <<(IF n > 0 THEN 1 ELSE IF n < 0 THEN 0 - 1 ELSE 0), 0>>
    ELSE LET g == GCD(Abs(n), Abs(d))
             sg == IF d < 0 THEN 0 - 1 ELSE 1
         IN <<(sg * n) \div g, (sg * d) \div g>>

Float(n) == <<n, 1>>

IsFinite(a) == a[2] # 0

RSub(a, b) == Rat(a[1] * b[2] - b[1] * a[2], a[2] * b[2])

RMul(a, b) == Rat(a[1] * b[1], a[2] * b[2])

\* a < b on finite floats
RLess(a, b) == a[1] * b[2] < b[1] * a[2]

\* int(a): the fraction is cut off
PyInt(a) == IF a[1] >= 0 THEN a[1] \div a[2] ELSE 0 - ((0 - a[1]) \div a[2])

\* mutant of SetMin: the largest is taken
SetMin_largest(S) == CHOOSE m \in S : \A x \in S : m >= x

\* min(S) of a non-empty set of integers
SetMin(S) == CHOOSE m \in S : \A x \in S : m <= x

\* a / b on Python floats: ZeroDivisionError when b is 0
PyDiv(a, b) ==
    IF b[1] = 0 THEN [err |-> "ZeroDivisionError", val |-> a]
    ELSE [err |-> "none", val |-> Rat(a[1] * b[2], a[2] * b[1])]

RECURSIVE SumSeq(_)
SumSeq(s) == IF s = <<>> THEN 0 ELSE Head(s) + SumSeq(Tail(s))

RECURSIVE SeqsUpTo(_, _)
\* all sequences over S of length 0..n
SeqsUpTo(S, n) ==
    IF n = 0 THEN {<<>>}
    ELSE LET shorter == SeqsUpTo(S, n - 1) IN
         shorter \cup {Append(s, x) : s \in {t \in shorter : Len(t) = n - 1}, x \in S}

-----------------------------------------------------------------------------
(* Common/common.py: get_indices, get_index, get_neighbors *)

\* mutants of get_indices: x and y exchanged; the "- 1" forgotten
get_indices_swapped(max_x, x, max_y, y, k) ==
    <<k - (max_y - y) - 1, k - (max_x - x) - 1>>

get_indices_off_by_one(max_x, x, max_y, y, k) ==
    <<k - (max_x - x), k - (max_y - y)>>

get_indices(max_x, x, max_y, y, k) ==
    <<k - (max_x - x) - 1, k - (max_y - y) - 1>>

get_index(max_x, x, max_y, y, k) ==
    LET ind == get_indices(max_x, x, max_y, y, k) IN ind[2] * k + ind[1]

RECURSIVE place_points(_, _, _, _, _)
\* the loop "for p in point_list" of get_neighbors, from position i on;
\* acc is [err, list]
place_points(acc, pl, i, pt, k) ==
    IF i > Len(pl) \/ acc.err # "none" THEN acc
    ELSE LET x     == pl[pt].X
             y     == pl[pt].Y
             max_x == x + Half(k)
             min_x == x - Half(k)
             max_y == y + Half(k)
             min_y == y - Half(k)
             p     == pl[i]
         IN IF min_x <= p.X /\ p.X <= max_x /\ min_y <= p.Y /\ p.Y <= max_y
            THEN LET ind == get_indices(max_x, p.X, max_y, p.Y, k)
                 IN place_points(PyStore(acc.list, ind[2] * k + ind[1], i), pl, i + 1, pt, k)
            ELSE place_points(acc, pl, i + 1, pt, k)

\* get_neighbors(point, point_list, num_neighbors, use_list=True)
get_neighbors(pt, pl, k) ==
    place_points([err |-> "none", list |-> [s \in 1..(k * k) |-> None]], pl, 1, pt, k)

Coords == 0..MaxCoord
Points == [X : Coords, Y : Coords]

NbrIdle ==
    /\ point_list = <<>>
    /\ point = 0
    /\ num_neighbors = 0
    /\ neighborhood = [err |-> "none", list |-> <<>>]
    /\ nbr_pc = "idle"

NbrInit ==
    /\ point_list \in SeqsUpTo(Points, MaxPoints)
    /\ point_list # <<>>
    /\ point \in 1..Len(point_list)
    /\ num_neighbors \in 1..MaxWindow
    /\ neighborhood = [err |-> "none", list |-> <<>>]
    /\ nbr_pc = "call"

GetNeighbors ==
    /\ nbr_pc = "call"
    /\ neighborhood' = get_neighbors(point, point_list, num_neighbors)
    /\ nbr_pc' = "done"
    /\ UNCHANGED <<point_list, point, num_neighbors>>
    /\ UNCHANGED <<histVars, dsVars, parseVars, rgbVars, smpVars, fpVars>>

-----------------------------------------------------------------------------
(* Common/common.py: get_histogram *)

RoiNames   == {"soil", "rock", "background"}
LabelLists == SeqsUpTo({"soil", "rock", "background"}, 2) \cup {<<"soil", "rock", "background">>}

\* "roi.name is 'background'": identity of two string objects; true only of the
\* same object, which an equal string is when the interpreter interned it
IsBackground(name, intern) == name = "background" /\ intern

\* mutant of HistAdd: an absent key is created instead of raising KeyError
HistAdd_setdefault(acc, key, n) ==
    [err |-> "none",
     map |-> [t \in DOMAIN acc.map \cup {key} |->
                 IF t = key THEN (IF key \in DOMAIN acc.map THEN acc.map[key] ELSE 0) + n
                 ELSE acc.map[t]]]

\* histogram[key] += n : KeyError when the key is absent
HistAdd(acc, key, n) ==
    IF key \in DOMAIN acc.map
    THEN [err |-> "none", map |-> [acc.map EXCEPT ![key] = @ + n]]
    ELSE [err |-> "KeyError", map |-> acc.map]

RECURSIVE count_rois(_, _, _, _, _, _)
\* the loop "for roi in roi_list" of get_histogram, from position i on
count_rois(acc, rl, i, tg, cp, intern) ==
    IF i > Len(rl) \/ acc.err # "none" THEN acc
    ELSE LET roi == rl[i]
             inTargets == \E j \in 1..Len(tg) : tg[j] = roi.name
         IN IF IsBackground(roi.name, intern) \/ ~inTargets
            THEN count_rois(HistAdd(acc, "background", IF cp THEN roi.num_points ELSE 1),
                            rl, i + 1, tg, cp, intern)
            ELSE IF cp
                 THEN count_rois(HistAdd(acc, roi.name, roi.num_points), rl, i + 1, tg, cp, intern)
                 ELSE count_rois(HistAdd(acc, "background", 1), rl, i + 1, tg, cp, intern)

\* mutant of get_histogram: a region that is no target is dropped, not folded
\* into 'background'
get_histogram_no_fold(rl, tg, cp, intern) ==
    LET count(name) == SumSeq([i \in 1..Len(rl) |->
                                 IF rl[i].name = name THEN rl[i].num_points ELSE 0])
    IN [err |-> "none", map |-> [t \in {tg[j] : j \in 1..Len(tg)} |-> count(t)]]

get_histogram(rl, tg, cp, intern) ==
    count_rois([err |-> "none", map |-> [t \in {tg[j] : j \in 1..Len(tg)} |-> 0]],
               rl, 1, tg, cp, intern)

\* a region as get_histogram sees it; the parser leaves num_points = len(points)
HistRois == {[name |-> n, num_points |-> c, points |-> [i \in 1..c |-> i]] :
                n \in RoiNames, c \in 0..MaxCount}

HistIdle ==
    /\ roi_list = <<>>
    /\ targets = <<>>
    /\ count_points = TRUE
    /\ interned = FALSE
    /\ histogram = [err |-> "none", map |-> <<>>]
    /\ hist_pc = "idle"

HistInit ==
    /\ roi_list \in SeqsUpTo(HistRois, MaxRois)
    /\ targets \in LabelLists
    /\ count_points \in BOOLEAN
    /\ interned \in BOOLEAN
    /\ histogram = [err |-> "none", map |-> <<>>]
    /\ hist_pc = "call"

GetHistogram ==
    /\ hist_pc = "call"
    /\ histogram' = get_histogram(roi_list, targets, count_points, interned)
    /\ hist_pc' = "done"
    /\ UNCHANGED <<roi_list, targets, count_points, interned>>
    /\ UNCHANGED <<nbrVars, dsVars, parseVars, rgbVars, smpVars, fpVars>>

-----------------------------------------------------------------------------
(* RegionOfInterest/regions_of_interest.py: RegionsOfInterest *)

\* Point(identity, x, y, ..., bands) and ROI(name, sub_name, rgb, num_points, points)
MkPoint(id, x, y, bands) == [identity |-> id, X |-> x, Y |-> y, bands |-> bands]

MkROI(name, sub_name, num_points, pts) ==
    [name |-> name, sub_name |-> sub_name, num_points |-> num_points, points |-> pts]

\* _read_spectral_data: res_rois[roi.name][roi.sub_name] = roi
insert_roi(d, roi) ==
    IF DictHas(d, roi.name)
    THEN DictSet(d, roi.name, DictSet(DictGet(d, roi.name), roi.sub_name, roi))
    ELSE DictSet(d, roi.name, DictSet(<<>>, roi.sub_name, roi))

RECURSIVE insert_rois(_, _, _)
insert_rois(d, rl, i) ==
    IF i > Len(rl) THEN d ELSE insert_rois(insert_roi(d, rl[i]), rl, i + 1)

RECURSIVE last_bands(_, _)
\* the bands of the last record read before position i of the region list
last_bands(rl, i) ==
    IF i = 0 THEN <<>>
    ELSE IF Len(rl[i].points) > 0 THEN rl[i].points[Len(rl[i].points)].bands
    ELSE last_bands(rl, i - 1)

\* what read_data_from_file returns for a file whose regions, fully read, are rl
\* (at least one record: with none, len(bands) raises NameError)
ParsedFile(rl) ==
    [rois |-> insert_rois(<<>>, rl, 1), num_bands |-> Len(last_bands(rl, Len(rl)))]

RECURSIVE get_all_from(_, _, _)
get_all_from(rs, k, s) ==
    IF k > Len(rs) THEN <<>>
    ELSE IF s > Len(rs[k][2]) THEN get_all_from(rs, k + 1, 1)
    ELSE <<<<k, s>>>> \o get_all_from(rs, k, s + 1)

\* get_all(): the regions of the dict of dicts as a list of references <<k, s>>
get_all(rs) == get_all_from(rs, 1, 1)

RoiAt(rs, ref) == rs[ref[1]][2][ref[2]][2]

is_min_max(string) == string \in {"min-max", "max-min", "mm"}

is_gaussian(string) == string \in {"gaussian", "gauss", "g"}

\* (point.bands[i] - min_param[i]) / (max_param[i] - min_param[i]), i counted from 1
cell_min_max(bands, i, min_param, max_param) ==
    IF i > Len(bands) \/ i > Len(min_param) \/ i > Len(max_param)
    THEN [err |-> "IndexError", val |-> Float(0)]
    ELSE PyDiv(RSub(bands[i], min_param[i]), RSub(max_param[i], min_param[i]))

\* (point.bands[i] - mean_param[i]) / std_dev_param[i]
cell_gaussian(bands, i, mean_param, std_dev_param) ==
    IF i > Len(bands) \/ i > Len(mean_param) \/ i > Len(std_dev_param)
    THEN [err |-> "IndexError", val |-> Float(0)]
    ELSE PyDiv(RSub(bands[i], mean_param[i]), std_dev_param[i])

RECURSIVE norm_loop(_, _, _, _, _, _, _, _, _)
\* the loops "for roi in self.get_all(): for point in roi.points:
\* for i in range(self.num_bands)" of _normalize_min_max and _normalize_gaussian,
\* from region r, point p, band i on; st is [err, rois]
norm_loop(st, refs, r, p, i, nb, kind, a, b) ==
    IF st.err # "none" \/ r > Len(refs) THEN st
    ELSE LET k   == refs[r][1]
             sb  == refs[r][2]
             roi == RoiAt(st.rois, refs[r])
         IN IF p > Len(roi.points) THEN norm_loop(st, refs, r + 1, 1, 1, nb, kind, a, b)
            ELSE IF i > nb THEN norm_loop(st, refs, r, p + 1, 1, nb, kind, a, b)
            ELSE LET c == IF kind = "min-max"
                          THEN cell_min_max(roi.points[p].bands, i, a, b)
                          ELSE cell_gaussian(roi.points[p].bands, i, a, b)
                 IN IF c.err # "none" THEN [err |-> c.err, rois |-> st.rois]
                    ELSE norm_loop(
                           [err  |-> "none",
                            rois |-> [st.rois EXCEPT
                                        ![k][2][sb][2].points[p].bands[i] = c.val]],
                           refs, r, p, i + 1, nb, kind, a, b)

\* _normalize_min_max(self, min_param, max_param) -> [err, rois, is_normalized]
normalize_min_max(self, min_param, max_param) ==
    IF ~(Len(min_param) = self.num_bands) /\ Len(max_param) = self.num_bands
    THEN [err |-> "Exception", rois |-> self.rois, is_normalized |-> self.is_normalized]
    ELSE LET st == norm_loop([err |-> "none", rois |-> self.rois], get_all(self.rois),
                             1, 1, 1, self.num_bands, "min-max", min_param, max_param)
         IN [err |-> st.err, rois |-> st.rois,
             is_normalized |-> IF st.err = "none" THEN TRUE ELSE self.is_normalized]

\* _normalize_gaussian(self, mean_param, std_dev_param)
normalize_gaussian(self, mean_param, std_dev_param) ==
    IF ~(Len(mean_param) = self.num_bands) /\ Len(std_dev_param) = self.num_bands
    THEN [err |-> "Exception", rois |-> self.rois, is_normalized |-> self.is_normalized]
    ELSE LET st == norm_loop([err |-> "none", rois |-> self.rois], get_all(self.rois),
                             1, 1, 1, self.num_bands, "gaussian", mean_param, std_dev_param)
         IN [err |-> st.err, rois |-> st.rois,
             is_normalized |-> IF st.err = "none" THEN TRUE ELSE self.is_normalized]

\* normalize(self, mode)
normalize(self, mode) ==
    IF is_min_max(mode) THEN normalize_min_max(self, self.minimums, self.maximums)
    ELSE IF is_gaussian(mode) THEN normalize_gaussian(self, self.means, self.standard_deviations)
    ELSE [err |-> "none", rois |-> self.rois, is_normalized |-> self.is_normalized]

\* mutant of absolutize_loop: the is_normalized guard forgotten
absolutize_loop_unguarded(self) ==
    IF Len(self.rois) > 0 THEN [err |-> "AttributeError", rois |-> self.rois]
    ELSE [err |-> "none", rois |-> self.rois]

\* _absolutize_min_max(self) and _abolutize_gaussian(self): the guard, then
\* "for roi in self.rois: for point in roi.points": self.rois is the dict, so roi
\* is a key, a str, and roi.points raises AttributeError in the first iteration
absolutize_loop(self) ==
    IF ~self.is_normalized THEN [err |-> "Exception", rois |-> self.rois]
    ELSE IF Len(self.rois) > 0 THEN [err |-> "AttributeError", rois |-> self.rois]
    ELSE [err |-> "none", rois |-> self.rois]

\* absolutize(self, mode)
absolutize(self, mode) ==
    IF mode = "min-max" \/ mode = "max-min" \/ mode = "gaussian" \/ mode = "gauss"
    THEN LET st == absolutize_loop(self)
         IN [err |-> st.err, rois |-> st.rois,
             is_normalized |-> IF st.err = "none" THEN FALSE ELSE self.is_normalized]
    ELSE [err |-> "NotImplementedError", rois |-> self.rois,
          is_normalized |-> self.is_normalized]

Self == [rois |-> rois, num_bands |-> num_bands, is_normalized |-> is_normalized,
         minimums |-> minimums, maximums |-> maximums, means |-> means,
         standard_deviations |-> standard_deviations]

Snapshot == [rois |-> rois, is_normalized |-> is_normalized]

NoCall == [op |-> "none", mode |-> "", outcome |-> "none",
           pre |-> [rois |-> <<>>, is_normalized |-> FALSE]]

\* the files read_data_from_file can return, as lists of fully read regions
FileRegions ==
    { <<MkROI("soil", "1", 1, <<MkPoint(1, 0, 0, <<Float(5), Float(5)>>)>>)>>,
      <<MkROI("rock", "1", 2, <<MkPoint(1, 0, 0, <<Float(0), Float(10)>>),
                                MkPoint(2, 1, 0, <<Float(5), Float(5)>>)>>),
        MkROI("soil", "1", 1, <<MkPoint(1, 2, 2, <<Float(10), Float(0)>>)>>)>>,
      <<MkROI("rock", "1", 1, <<MkPoint(1, 0, 0, <<Float(5)>>)>>),
        MkROI("rock", "2", 1, <<MkPoint(1, 1, 1, <<Float(10)>>)>>)>>,
      \* two regions with the same name and sub-name: the second, empty, replaces the first
      <<MkROI("rock", "1", 1, <<MkPoint(1, 0, 0, <<Float(5)>>)>>),
        MkROI("rock", "1", 0, <<>>)>>,
      \* records with different numbers of band columns
      <<MkROI("rock", "1", 2, <<MkPoint(1, 0, 0, <<Float(5)>>),
                                MkPoint(2, 1, 0, <<Float(5), Float(10)>>)>>)>> }

Files == {ParsedFile(rl) : rl \in FileRegions}

\* the statistics read_normalizing_data can return
NormFiles ==
    { [maximums |-> <<Float(10), Float(10)>>, minimums |-> <<Float(0), Float(0)>>,
       means |-> <<Float(5), Float(5)>>, standard_deviations |-> <<Float(5), Float(2)>>],
      [maximums |-> <<Float(10)>>, minimums |-> <<Float(0)>>,
       means |-> <<Float(5)>>, standard_deviations |-> <<Float(5)>>],
      \* a band of zero width
      [maximums |-> <<Float(10), Float(5)>>, minimums |-> <<Float(0), Float(5)>>,
       means |-> <<Float(5), Float(5)>>, standard_deviations |-> <<Float(5), Float(0)>>],
      [maximums |-> <<Float(0)>>, minimums |-> <<Float(0)>>,
       means |-> <<Float(0)>>, standard_deviations |-> <<Float(0)>>] }

ModeInputs == {"min-max", "mm", "gaussian", "linear"}

\* self.histogram = None
NoHistogram == [set |-> FALSE, map |-> <<>>]

\* nothing returned yet
NoReturn == [kind |-> "none", of |-> <<>>, val |-> <<>>]

DsIdle ==
    /\ file = [rois |-> <<>>, num_bands |-> 0]
    /\ norm_file = [maximums |-> <<>>, minimums |-> <<>>, means |-> <<>>,
                    standard_deviations |-> <<>>]
    /\ rois = <<>>
    /\ num_bands = 0
    /\ is_normalized = FALSE
    /\ is_loaded = FALSE
    /\ minimums = <<>>
    /\ maximums = <<>>
    /\ means = <<>>
    /\ standard_deviations = <<>>
    /\ ds_pc = "idle"
    /\ last = NoCall
    /\ prev = NoCall
    /\ ops = 0
    /\ use_aggregate = TRUE
    /\ self_histogram = NoHistogram
    /\ returned = NoReturn

DsInit ==
    /\ file \in Files
    /\ norm_file \in NormFiles
    /\ rois = <<>>
    /\ num_bands = 0
    /\ is_normalized = FALSE
    /\ is_loaded = FALSE
    /\ minimums = <<>>
    /\ maximums = <<>>
    /\ means = <<>>
    /\ standard_deviations = <<>>
    /\ ds_pc = "new"
    /\ last = NoCall
    /\ prev = NoCall
    /\ ops = 0
    /\ use_aggregate = TRUE
    /\ self_histogram = NoHistogram
    /\ returned = NoReturn

\* RegionsOfInterest(path, read_data, use_aggregate, normalizing_path, mode,
\* normalize, is_normalized) for the path of a text file
Construct(read_data, aggregate, with_norm, mode, normalize_arg, flag) ==
    /\ ds_pc = "new"
    /\ LET loaded == IF read_data THEN file ELSE [rois |-> <<>>, num_bands |-> 0]
           self0  == [rois |-> loaded.rois, num_bands |-> loaded.num_bands,
                      is_normalized |-> flag,
                      minimums |-> IF with_norm THEN norm_file.minimums ELSE <<>>,
                      maximums |-> IF with_norm THEN norm_file.maximums ELSE <<>>,
                      means |-> IF with_norm THEN norm_file.means ELSE <<>>,
                      standard_deviations |->
                          IF with_norm THEN norm_file.standard_deviations ELSE <<>>]
           called == with_norm /\ normalize_arg
           r      == IF called THEN normalize(self0, mode)
                     ELSE [err |-> "none", rois |-> self0.rois, is_normalized |-> flag]
       IN /\ rois' = r.rois
          /\ num_bands' = self0.num_bands
          /\ is_normalized' = r.is_normalized
          /\ minimums' = self0.minimums
          /\ maximums' = self0.maximums
          /\ means' = self0.means
          /\ standard_deviations' = self0.standard_deviations
          /\ ds_pc' = IF r.err = "none" THEN "live" ELSE "failed"
          /\ last' = IF called
                     THEN [op |-> "normalize", mode |-> mode, outcome |-> r.err,
                           pre |-> [rois |-> self0.rois, is_normalized |-> flag]]
                     ELSE NoCall
    /\ prev' = NoCall
    /\ use_aggregate' = aggregate
    /\ self_histogram' = NoHistogram
    /\ UNCHANGED <<file, norm_file, is_loaded, ops, returned>>
    /\ UNCHANGED <<nbrVars, histVars, parseVars, rgbVars, smpVars, fpVars>>

Called(op, mode, outcome) ==
    /\ last' = [op |-> op, mode |-> mode, outcome |-> outcome, pre |-> Snapshot]
    /\ prev' = last
    /\ ops' = ops + 1

\* load_data(self)
LoadData ==
    /\ ds_pc = "live" /\ ops < MaxOps
    /\ rois' = file.rois
    /\ num_bands' = file.num_bands
    /\ is_loaded' = TRUE
    /\ Called("load_data", "", "none")
    /\ UNCHANGED <<file, norm_file, is_normalized, minimums, maximums, means,
                   standard_deviations, ds_pc,
                   use_aggregate, self_histogram, returned>>
    /\ UNCHANGED <<nbrVars, histVars, parseVars, rgbVars, smpVars, fpVars>>

\* get_all(self, force_load)
GetAll(force_load) ==
    /\ ds_pc = "live" /\ ops < MaxOps
    /\ IF force_load /\ ~is_loaded
       THEN /\ rois' = file.rois
            /\ num_bands' = file.num_bands
            /\ is_loaded' = TRUE
       ELSE UNCHANGED <<rois, num_bands, is_loaded>>
    /\ Called("get_all", IF force_load THEN "force_load" ELSE "", "none")
    /\ UNCHANGED <<file, norm_file, is_normalized, minimums, maximums, means,
                   standard_deviations, ds_pc,
                   use_aggregate, self_histogram, returned>>
    /\ UNCHANGED <<nbrVars, histVars, parseVars, rgbVars, smpVars, fpVars>>

\* normalize(self, mode)
Normalize(mode) ==
    /\ ds_pc = "live" /\ ops < MaxOps
    /\ LET r == normalize(Self, mode)
       IN /\ rois' = r.rois
          /\ is_normalized' = r.is_normalized
          /\ Called("normalize", mode, r.err)
    /\ UNCHANGED <<file, norm_file, num_bands, is_loaded, minimums, maximums, means,
                   standard_deviations, ds_pc,
                   use_aggregate, self_histogram, returned>>
    /\ UNCHANGED <<nbrVars, histVars, parseVars, rgbVars, smpVars, fpVars>>

\* absolutize(self, mode)
Absolutize(mode) ==
    /\ ds_pc = "live" /\ ops < MaxOps
    /\ LET r == absolutize(Self, mode)
       IN /\ rois' = r.rois
          /\ is_normalized' = r.is_normalized
          /\ Called("absolutize", mode, r.err)
    /\ UNCHANGED <<file, norm_file, num_bands, is_loaded, minimums, maximums, means,
                   standard_deviations, ds_pc,
                   use_aggregate, self_histogram, returned>>
    /\ UNCHANGED <<nbrVars, histVars, parseVars, rgbVars, smpVars, fpVars>>

-----------------------------------------------------------------------------
(* Common/common.py: extract_name; Common/data_management.py: the parser *)

Digits == {"0", "1", "2", "3", "4", "5", "6", "7", "8", "9"}

RECURSIVE split(_, _)
\* str.split(sep) on a string given as its sequence of characters
split(str, sep) ==
    IF \A j \in 1..Len(str) : str[j] # sep THEN <<str>>
    ELSE LET j == CHOOSE j \in 1..Len(str) :
                      str[j] = sep /\ \A h \in 1..(j - 1) : str[h] # sep
         IN <<SubSeq(str, 1, j - 1)>> \o split(SubSeq(str, j + 1, Len(str)), sep)

RECURSIVE regex_split_digits(_)
\* re.split('(\d+)', str): the pieces between the runs of digits, and the runs
regex_split_digits(str) ==
    IF \A j \in 1..Len(str) : str[j] \notin Digits THEN <<str>>
    ELSE LET d == CHOOSE j \in 1..Len(str) :
                      str[j] \in Digits /\ \A h \in 1..(j - 1) : str[h] \notin Digits
             e == CHOOSE j \in d..Len(str) :
                      /\ \A h \in d..j : str[h] \in Digits
                      /\ (j = Len(str) \/ str[j + 1] \notin Digits)
         IN <<SubSeq(str, 1, d - 1), SubSeq(str, d, e)>>
            \o regex_split_digits(SubSeq(str, e + 1, Len(str)))

\* extract_name(name_string) for the last token of the name line
\* -> [err, roi_name, sub_name]
extract_name(token) ==
    LET full_name == split(token, "_") IN
    IF Len(full_name) > 1
    THEN [err |-> "none", roi_name |-> full_name[1], sub_name |-> full_name[2]]
    ELSE LET pieces == regex_split_digits(full_name[1]) IN
         IF Len(pieces) > 1
         THEN [err |-> "none", roi_name |-> pieces[1], sub_name |-> pieces[2]]
         ELSE [err |-> "IndexError", roi_name |-> pieces[1], sub_name |-> <<>>]

RECURSIVE read_rois(_, _)
\* the loop "for i in range(number_of_rois)" of _read_meta_data, from region i on
\* -> [err, rois]
read_rois(hdr, i) ==
    IF i > Len(hdr) THEN [err |-> "none", rois |-> <<>>]
    ELSE LET nm == extract_name(hdr[i].raw_name) IN
         IF nm.err # "none" THEN [err |-> nm.err, rois |-> <<>>]
         ELSE LET rest == read_rois(hdr, i + 1) IN
              [err  |-> rest.err,
               rois |-> <<MkROI(nm.roi_name, nm.sub_name, hdr[i].num_points, <<>>)>>
                        \o rest.rois]

\* mutant of read_line: a blank line is taken for a record
read_line_counting_blanks(lines, at, roi, i, bnds) ==
    IF at > Len(lines)
    THEN [err |-> "none", pos |-> at, roi |-> roi, cnt |-> i, bands |-> bnds]
    ELSE IF lines[at].kind = "blank"
    THEN [err |-> "none", pos |-> at + 1, roi |-> roi, cnt |-> i + 1, bands |-> bnds]
    ELSE IF lines[at].kind = "space"
    THEN [err |-> "IndexError", pos |-> at + 1, roi |-> roi, cnt |-> i, bands |-> bnds]
    ELSE [err   |-> "none",
          pos   |-> at + 1,
          roi   |-> [roi EXCEPT !.points = Append(@, lines[at].point)],
          cnt   |-> i + 1,
          bands |-> [bound |-> TRUE, val |-> lines[at].point.bands]]

\* one "line = datafile.readline()" of _read_spectral_data and what follows it:
\* at the end of the file readline() returns "" and the while loop reads again;
\* a blank line is skipped; a line of white space splits into no token, and
\* spectrum[0] raises IndexError; a record becomes a Point of the region
read_line(lines, at, roi, i, bnds) ==
    IF at > Len(lines)
    THEN [err |-> "none", pos |-> at, roi |-> roi, cnt |-> i, bands |-> bnds]
    ELSE IF lines[at].kind = "blank"
    THEN [err |-> "none", pos |-> at + 1, roi |-> roi, cnt |-> i, bands |-> bnds]
    ELSE IF lines[at].kind = "space"
    THEN [err |-> "IndexError", pos |-> at + 1, roi |-> roi, cnt |-> i, bands |-> bnds]
    ELSE [err   |-> "none",
          pos   |-> at + 1,
          roi   |-> [roi EXCEPT !.points = Append(@, lines[at].point)],
          cnt   |-> i + 1,
          bands |-> [bound |-> TRUE, val |-> lines[at].point.bands]]

RawNames ==
    { <<"r", "o", "c", "k", "_", "1">>,
      <<"r", "o", "c", "k", "_", "2">>,
      <<"s", "o", "i", "l", "_", "1">>,
      <<"r", "o", "c", "k", "1">>,
      <<"r", "o", "c", "k", "_", "1", "_", "b">>,
      <<"s", "o", "i", "l">> }

\* the region declarations of a file: one or two regions
Headers ==
    {<<[raw_name |-> n, num_points |-> c]>> : n \in RawNames, c \in 0..MaxDeclared}
    \cup
    {<<[raw_name |-> n1, num_points |-> c1], [raw_name |-> n2, num_points |-> c2]>> :
        n1 \in {<<"r", "o", "c", "k", "_", "1">>, <<"r", "o", "c", "k", "1">>},
        n2 \in RawNames, c1 \in 0..MaxDeclared, c2 \in 0..MaxDeclared}

\* the line at position j: a record of one or of two bands, a blank line, or a
\* line of white space
Line(kind, j) ==
    [kind  |-> IF kind \in {"rec1", "rec2"} THEN "rec" ELSE kind,
     point |-> IF kind = "rec1" THEN MkPoint(j, j, 0, <<Float(j)>>)
               ELSE IF kind = "rec2" THEN MkPoint(j, j, 1, <<Float(j), Float(10)>>)
               ELSE MkPoint(0, 0, 0, <<>>)]

Bodies ==
    {[j \in 1..Len(ks) |-> Line(ks[j], j)] :
        ks \in SeqsUpTo({"rec1", "rec2", "blank", "space"}, MaxLines)}

Unbound == [bound |-> FALSE, val |-> <<>>]

NoResults == [rois |-> <<>>, num_bands |-> 0]

ParseIdle ==
    /\ header = <<>>
    /\ body = <<>>
    /\ pos = 0
    /\ meta_rois = <<>>
    /\ cur = 0
    /\ cnt = 0
    /\ res_rois = <<>>
    /\ bands_var = Unbound
    /\ results = NoResults
    /\ parse_pc = "idle"

ParseInit ==
    /\ header \in Headers
    /\ body \in Bodies
    /\ pos = 1
    /\ meta_rois = <<>>
    /\ cur = 1
    /\ cnt = 0
    /\ res_rois = <<>>
    /\ bands_var = Unbound
    /\ results = NoResults
    /\ parse_pc = "meta"

\* _read_meta_data(datafile)
ReadMetaData ==
    /\ parse_pc = "meta"
    /\ LET r == read_rois(header, 1)
       IN /\ meta_rois' = r.rois
          /\ parse_pc' = IF r.err = "none" THEN "spectral" ELSE "error"
    /\ UNCHANGED <<header, body, pos, cur, cnt, res_rois, bands_var, results>>
    /\ UNCHANGED <<nbrVars, histVars, dsVars, rgbVars, smpVars, fpVars>>

\* _read_spectral_data: one readline() inside "for i in range(roi.num_points)"
ReadLine ==
    /\ parse_pc = "spectral"
    /\ cur <= Len(meta_rois)
    /\ cnt < meta_rois[cur].num_points
    /\ LET r == read_line(body, pos, meta_rois[cur], cnt, bands_var)
       IN /\ pos' = r.pos
          /\ meta_rois' = [meta_rois EXCEPT ![cur] = r.roi]
          /\ cnt' = r.cnt
          /\ bands_var' = r.bands
          /\ parse_pc' = IF r.err = "none" THEN "spectral" ELSE "error"
    /\ UNCHANGED <<header, body, cur, res_rois, results>>
    /\ UNCHANGED <<nbrVars, histVars, dsVars, rgbVars, smpVars, fpVars>>

\* _read_spectral_data: res_rois[roi.name][roi.sub_name] = roi after the
\* region's records
StoreRegion ==
    /\ parse_pc = "spectral"
    /\ cur <= Len(meta_rois)
    /\ cnt = meta_rois[cur].num_points
    /\ res_rois' = insert_roi(res_rois, meta_rois[cur])
    /\ cur' = cur + 1
    /\ cnt' = 0
    /\ UNCHANGED <<header, body, pos, meta_rois, bands_var, results, parse_pc>>
    /\ UNCHANGED <<nbrVars, histVars, dsVars, rgbVars, smpVars, fpVars>>

\* _read_spectral_data: results['num_bands'] = len(bands), and the return
FinishParse ==
    /\ parse_pc = "spectral"
    /\ cur > Len(meta_rois)
    /\ IF bands_var.bound
       THEN /\ results' = [rois |-> res_rois, num_bands |-> Len(bands_var.val)]
            /\ parse_pc' = "done"
       ELSE /\ results' = results
            /\ parse_pc' = "error"
    /\ UNCHANGED <<header, body, pos, meta_rois, cur, cnt, res_rois, bands_var>>
    /\ UNCHANGED <<nbrVars, histVars, dsVars, rgbVars, smpVars, fpVars>>

-----------------------------------------------------------------------------
(* Common/data_management.py: the RGB line of _read_meta_data *)

DigitSeq == <<"0", "1", "2", "3", "4", "5", "6", "7", "8", "9">>

\* float(num) of a one-character string: ValueError unless it is a digit
float_of_char(c) ==
    IF c \in Digits
    THEN [err |-> "none", val |-> (CHOOSE n \in 1..10 : DigitSeq[n] = c) - 1]
    ELSE [err |-> "ValueError", val |-> 0]

\* split_numbers(numbers) for a list of three one-character strings
split_numbers(numbers) ==
    LET fs == [j \in 1..Len(numbers) |-> float_of_char(numbers[j])] IN
    IF \E j \in 1..Len(fs) : fs[j].err # "none"
    THEN [err |-> "ValueError", rgb |-> <<>>]
    ELSE [err |-> "none", rgb |-> [j \in 1..Len(fs) |-> fs[j].val]]

\* the integer a decimal numeral stands for
RECURSIVE int_of(_)
int_of(str) ==
    IF str = <<>> THEN 0
    ELSE 10 * int_of(SubSeq(str, 1, Len(str) - 1)) + float_of_char(str[Len(str)]).val

\* red = roi_rgb_string[-3][1], green = roi_rgb_string[-2][0],
\* blue = roi_rgb_string[-1][0], roi_rgb = split_numbers([red, green, blue])
read_rgb(tokens) ==
    LET n == Len(tokens) IN
    IF n < 3 \/ Len(tokens[n - 2]) < 2 \/ Len(tokens[n - 1]) < 1 \/ Len(tokens[n]) < 1
    THEN [err |-> "IndexError", rgb |-> <<>>]
    ELSE split_numbers(<<tokens[n - 2][2], tokens[n - 1][1], tokens[n][1]>>)

\* the decimal numerals of the colour values a line can hold
RgbNumerals ==
    { <<"0">>, <<"7">>, <<"9">>, <<"2", "5">>, <<"2", "5", "5">>, <<"1", "0", "0">> }

\* the tokens of the line "{r, g, b}"
RgbTokens(r, g, b) == << <<"{">> \o r \o <<",">>, g \o <<",">>, b \o <<"}">> >>

RgbIdle ==
    /\ roi_rgb_string = <<>>
    /\ roi_rgb = [err |-> "none", rgb |-> <<>>]
    /\ rgb_pc = "idle"

RgbInit ==
    /\ roi_rgb_string \in {RgbTokens(r, g, b) : r \in RgbNumerals, g \in RgbNumerals,
                                                b \in RgbNumerals}
    /\ roi_rgb = [err |-> "none", rgb |-> <<>>]
    /\ rgb_pc = "read"

\* _read_meta_data: lines 149-153, for the line just read
ReadRgb ==
    /\ rgb_pc = "read"
    /\ roi_rgb' = read_rgb(roi_rgb_string)
    /\ rgb_pc' = "done"
    /\ UNCHANGED roi_rgb_string
    /\ UNCHANGED <<nbrVars, histVars, dsVars, parseVars, smpVars, fpVars>>

-----------------------------------------------------------------------------
(* data_moving.py: load_data_set_from_regions_of_interest, and the helpers of
   Common/data_management.py and of data_moving.py it runs *)

RECURSIVE convert_from(_, _, _, _)
convert_from(res, strings, objects, i) ==
    IF i > Len(strings) THEN res
    ELSE convert_from(DictSet(res, strings[i], objects[i]), strings, objects, i + 1)

\* _convert_to_dict(strings, objects), the lists being of one length
convert_to_dict(strings, objects) == convert_from(<<>>, strings, objects, 1)

\* the keys of a dict, in its order
Keys(d) == [j \in 1..Len(d) |-> d[j][1]]

\* roi_obj.get_all() as a list of ROI objects
RoiList(obj) == [j \in 1..Len(get_all(obj.rois)) |-> RoiAt(obj.rois, get_all(obj.rois)[j])]

NoSizes == [err |-> "none", sizes |-> <<>>, warned |-> FALSE]

\* _find_feasible_sizes(roi_obj, targets_background_ratio) -> [err, sizes, warned]
find_feasible_sizes(rl, ttb) ==
    LET hist == get_histogram(rl, Keys(ttb), TRUE, FALSE) IN
    IF hist.err # "none" THEN [NoSizes EXCEPT !.err = hist.err]
    ELSE
    LET keys == DOMAIN hist.map
        quot(key) == PyDiv(Float(hist.map[key]), DictGet(ttb, key))
    IN
    IF \E key \in keys : quot(key).err # "none"
    THEN [NoSizes EXCEPT !.err = "ZeroDivisionError"]
    ELSE IF keys = {} THEN [NoSizes EXCEPT !.err = "ValueError"]
    ELSE
    LET target_background_pixels == SetMin({PyInt(quot(key).val) : key \in keys})
        num_pixels == [key \in keys |->
                          PyInt(RMul(DictGet(ttb, key), Float(target_background_pixels)))]
    IN
    IF "background" \notin keys THEN [NoSizes EXCEPT !.err = "KeyError"]
    ELSE IF num_pixels["background"] = 0
    THEN [NoSizes EXCEPT !.err = "ZeroDivisionError"]
    ELSE [err    |-> "none",
          sizes  |-> num_pixels,
          warned |-> \E key \in keys :
                        Rat(num_pixels[key], num_pixels["background"]) # DictGet(ttb, key)]

\* "if prob > 1: 1 / elif prob > 0: prob / else: 0" of _load_limited_data
clamp(prob) ==
    IF RLess(Float(1), prob) THEN Float(1)
    ELSE IF RLess(Float(0), prob) THEN prob
    ELSE Float(0)

\* the probability _load_limited_data computes for a target, before the clamp:
\* targets_to_background[target] / background_probability in data_management.py,
\* background_probability * targets_to_background[target] in data_moving.py
target_probability(ratio, background_probability, module) ==
    IF module = "data_moving"
    THEN [err |-> "none", val |-> RMul(background_probability, ratio)]
    ELSE PyDiv(ratio, background_probability)

NoProbabilities == [err |-> "none", sizes |-> <<>>, warned |-> FALSE, probabilities |-> <<>>]

\* _load_limited_data up to the call of _add_samples_to_data_set
\* -> [err, sizes, warned, probabilities]
limited_probabilities(rl, tg, ratios, module) ==
    IF Len(tg) # Len(ratios) THEN [NoProbabilities EXCEPT !.err = "AssertionError"]
    ELSE
    LET ttb  == convert_to_dict(tg, ratios)
        orig == get_histogram(rl, tg, TRUE, FALSE)
    IN
    IF orig.err # "none" THEN [NoProbabilities EXCEPT !.err = orig.err]
    ELSE
    LET feas == find_feasible_sizes(rl, ttb) IN
    IF feas.err # "none" THEN [NoProbabilities EXCEPT !.err = feas.err]
    ELSE
    LET bp == PyDiv(Float(feas.sizes["background"]), Float(orig.map["background"]))
        names == {tg[j] : j \in 1..Len(tg)} \ {"background"}
        ok == [NoProbabilities EXCEPT !.sizes = feas.sizes, !.warned = feas.warned]
    IN
    IF bp.err # "none" THEN [ok EXCEPT !.err = bp.err]
    ELSE IF \E t \in names : target_probability(DictGet(ttb, t), bp.val, module).err # "none"
    THEN [ok EXCEPT !.err = "ZeroDivisionError"]
    ELSE [ok EXCEPT !.probabilities =
             [t \in names \cup {"background"} |->
                 IF t = "background" THEN bp.val
                 ELSE clamp(target_probability(DictGet(ttb, t), bp.val, module).val)]]

\* the class a sample is added with: an index of the target list, or a name
IndexLabel(i) == [index |-> i, name |-> ""]
NameLabel(n) == [index |-> 0 - 1, name |-> n]

\* [0 for _ in range(n)]
Zeros(n) == [i \in 1..n |-> Float(0)]

RECURSIVE Flatten(_)
\* "for band in bands: collected_bands += band"
Flatten(seqs) == IF seqs = <<>> THEN <<>> ELSE Head(seqs) \o Flatten(Tail(seqs))

\* the sample add_points_to_sample builds for the point at position p -> [err, input]
sample_of(points, p, k) ==
    LET nb == get_neighbors(p, points, k) IN
    IF nb.err # "none" THEN [err |-> nb.err, input |-> <<>>]
    ELSE [err   |-> "none",
          input |-> Flatten([s \in 1..Len(nb.list) |->
                                IF nb.list[s] = None THEN Zeros(Len(points[p].bands))
                                ELSE points[nb.list[s]].bands])]

\* "if probability > 1: probability = 1 / elif probability < 0: probability = 0",
\* then "if probability <= random(): continue": the point is kept when the number
\* drawn is strictly below the probability
Selected(probability, draw) ==
    LET clamped == IF RLess(Float(1), probability) THEN Float(1)
                   ELSE IF RLess(probability, Float(0)) THEN Float(0)
                   ELSE probability
    IN RLess(draw, clamped)

RECURSIVE add_points(_, _, _, _, _, _, _)
\* the loop "for point in roi.points" of add_points_to_sample, from position p on;
\* acc is [err, samples]; a sample is the pair handed to data_set.addSample, and
\* "of" remembers the region and the point it was built for
add_points(acc, roi, target, k, probability, drawn, p) ==
    IF p > Len(roi.points) \/ acc.err # "none" THEN acc
    ELSE IF ~Selected(probability, drawn[p])
    THEN add_points(acc, roi, target, k, probability, drawn, p + 1)
    ELSE LET smp == sample_of(roi.points, p, k) IN
         IF smp.err # "none" THEN [acc EXCEPT !.err = smp.err]
         ELSE add_points([acc EXCEPT !.samples =
                             Append(@, [input |-> smp.input, target |-> target,
                                        of |-> <<roi.name, roi.sub_name, p>>])],
                         roi, target, k, probability, drawn, p + 1)

\* add_points_to_sample(roi, data_set, target, neighborhood_size, probability);
\* the one of data_moving.py calls roi.get_neighbors, which no ROI has
add_points_to_sample(acc, roi, target, k, probability, drawn, module) ==
    IF module = "data_moving"
    THEN IF roi.points = <<>> THEN acc ELSE [acc EXCEPT !.err = "AttributeError"]
    ELSE add_points(acc, roi, target, k, probability, drawn, 1)

\* mutant of target_dict: the classes are counted from 1
target_dict_from_one(tg, t) ==
    CHOOSE j \in 1..Len(tg) : tg[j] = t /\ \A h \in (j + 1)..Len(tg) : tg[h] # t

\* target_dict[target] = i for i in range(len(targets)): the last position wins
target_dict(tg, t) == (CHOOSE j \in 1..Len(tg) : tg[j] = t /\ \A h \in (j + 1)..Len(tg) : tg[h] # t) - 1

\* "t in targets"
IsTarget(tg, t) == \E j \in 1..Len(tg) : tg[j] = t

RECURSIVE add_rois(_, _, _, _, _, _, _, _)
\* the loop "for roi in roi_list" of _add_samples_to_data_set, from region i on;
\* in data_moving.py a region is added whole, "if random() <= prob"
add_rois(acc, rl, i, tg, k, probs, draws, module) ==
    IF i > Len(rl) \/ acc.err # "none" THEN acc
    ELSE
    LET roi == rl[i]
        key == IF ~IsTarget(tg, roi.name) THEN "background" ELSE roi.name
    IN
    IF ~IsTarget(tg, key) THEN [acc EXCEPT !.err = "KeyError"]
    ELSE
    LET number == IndexLabel(target_dict(tg, key))
        prob   == probs[key]
    IN
    IF module = "data_moving"
    THEN IF ~RLess(prob, draws[i][1])
         THEN add_rois(add_points_to_sample(acc, roi, number, k, Float(1), <<>>, module),
                       rl, i + 1, tg, k, probs, draws, module)
         ELSE add_rois(acc, rl, i + 1, tg, k, probs, draws, module)
    ELSE add_rois(add_points_to_sample(acc, roi, number, k, prob, draws[i], module),
                  rl, i + 1, tg, k, probs, draws, module)

NoSamples == [err |-> "none", samples |-> <<>>]

\* _add_samples_to_data_set(roi_list, targets, data_set, neighborhood_size, probabilities)
\* for a dict of probabilities
add_samples_to_data_set(rl, tg, k, probs, draws, module) ==
    IF Cardinality(DOMAIN probs) # Len(tg) THEN [NoSamples EXCEPT !.err = "AssertionError"]
    ELSE add_rois(NoSamples, rl, 1, tg, k, probs, draws, module)

RECURSIVE load_regular_data(_, _, _, _, _, _, _)
\* _load_regular_data: the loop "for roi in roi_obj.get_all()", from region i on
load_regular_data(acc, rl, i, tg, k, draws, module) ==
    IF i > Len(rl) \/ acc.err # "none" THEN acc
    ELSE LET roi  == rl[i]
             name == IF ~IsTarget(tg, roi.name) THEN "background" ELSE roi.name
         IN load_regular_data(
                add_points_to_sample(acc, roi, NameLabel(name), k, Float(1), draws[i], module),
                rl, i + 1, tg, k, draws, module)

\* load_data_set_from_regions_of_interest(roi_obj, targets, neigborhood_size,
\*                                        targets_background_ratios, have_background)
\* "if have_background: targets.append('background')": targets is the list object
\* the caller handed in
appended_targets(tg, hb) == IF hb THEN Append(tg, "background") ELSE tg

load_data_set(obj, tg, k, ratios, hb, module, draws) ==
    LET targets2 == appended_targets(tg, hb)
        rl  == RoiList(obj)
        out == [err |-> "none", targets |-> targets2, dim |-> k * k * obj.num_bands,
                feasible_sizes |-> <<>>, warned |-> FALSE, probabilities |-> <<>>,
                samples |-> <<>>, draws |-> draws]
    IN
    IF ratios.given
    THEN LET pr == limited_probabilities(rl, targets2, ratios.list, module)
             o2 == [out EXCEPT !.feasible_sizes = pr.sizes, !.warned = pr.warned,
                               !.probabilities = pr.probabilities]
         IN IF pr.err # "none" THEN [o2 EXCEPT !.err = pr.err]
            ELSE LET ad == add_samples_to_data_set(rl, targets2, k, pr.probabilities,
                                                   draws, module)
                 IN [o2 EXCEPT !.err = ad.err, !.samples = ad.samples]
    ELSE LET ad == load_regular_data(NoSamples, rl, 1, targets2, k, draws, module)
         IN [out EXCEPT !.err = ad.err, !.samples = ad.samples]

\* the target lists and the ratios a caller hands in
SmpTargets ==
    SeqsUpTo({"rock", "soil"}, 2) \cup {<<"rock", "background">>, <<"background", "rock">>}

Ratios == {Rat(1, 2), Float(1), Float(2)}

NoDataSet ==
    [err |-> "none", targets |-> <<>>, dim |-> 0, feasible_sizes |-> <<>>,
     warned |-> FALSE, probabilities |-> <<>>, samples |-> <<>>, draws |-> <<>>]

SmpIdle ==
    /\ roi_obj = [rois |-> <<>>, num_bands |-> 0]
    /\ smp_targets = <<>>
    /\ targets_list = <<>>
    /\ smp_ratios = [given |-> FALSE, list |-> <<>>]
    /\ neighborhood_size = 0
    /\ have_background = FALSE
    /\ smp_module = ""
    /\ data_set = NoDataSet
    /\ smp_pc = "idle"

SmpInit ==
    /\ roi_obj \in Files
    /\ smp_targets \in SmpTargets
    /\ targets_list = smp_targets
    /\ have_background \in BOOLEAN
    /\ smp_ratios \in {[given |-> FALSE, list |-> <<>>], [given |-> TRUE, list |-> <<>>]} \cup
                      {[given |-> TRUE, list |-> l] :
                          l \in {x \in SeqsUpTo(Ratios, 3) :
                                    Len(x) = Len(smp_targets) + (IF have_background THEN 1 ELSE 0)}}
    /\ neighborhood_size \in 1..MaxWindow
    /\ smp_module \in {"data_management", "data_moving"}
    /\ data_set = NoDataSet
    /\ smp_pc = "call"

\* numbers random() can return, a float of [0, 1)
Draws == {Float(0), Rat(1, 2), Rat(3, 4)}

\* what the calls of random() return while the regions of a list are added, region
\* by region: one number per point in data_management.py ("for point in
\* roi.points: if probability <= random()"), one number per region in
\* data_moving.py ("if random() <= prob")
RandomChoices(rl, module) ==
    {draws \in [1..Len(rl) -> SeqsUpTo(Draws, MaxDeclared)] :
        \A i \in 1..Len(rl) :
            Len(draws[i]) = IF module = "data_moving" THEN 1 ELSE Len(rl[i].points)}

\* one call of load_data_set_from_regions_of_interest; draws is what the calls of
\* random() return
LoadDataSet ==
    /\ smp_pc = "call"
    /\ \E draws \in RandomChoices(RoiList(roi_obj), smp_module) :
          data_set' = load_data_set(roi_obj, targets_list, neighborhood_size, smp_ratios,
                                    have_background, smp_module, draws)
    /\ targets_list' = appended_targets(targets_list, have_background)
    /\ smp_pc' = "done"
    /\ UNCHANGED <<roi_obj, smp_targets, smp_ratios, neighborhood_size, have_background,
                   smp_module>>
    /\ UNCHANGED <<nbrVars, histVars, dsVars, parseVars, rgbVars, fpVars>>

-----------------------------------------------------------------------------
(* RegionOfInterest/regions_of_interest.py: __getitem__ and get_histogram *)

\* the strings that are keys of self.rois, with their characters
Spelled ==
    { <<"rock", <<"r", "o", "c", "k">> >>, <<"soil", <<"s", "o", "i", "l">> >>,
      <<"1", <<"1">> >>, <<"2", <<"2">> >> }

\* the key a string of characters is equal to; "?" is no key of any dict
KeyOf(chars) ==
    IF \E e \in Spelled : e[2] = chars THEN (CHOOSE e \in Spelled : e[2] = chars)[1]
    ELSE "?"

\* the labels handed to __getitem__
Labels ==
    { <<"r", "o", "c", "k">>, <<"s", "o", "i", "l">>, <<"c", "l", "a", "y">>,
      <<"r", "o", "c", "k", "_", "1">>, <<"r", "o", "c", "k", "_", "2">> }

\* mutant of aggregate_points: only the first sub-region is taken
aggregate_points_first_only(sub, j) ==
    IF j > Len(sub) THEN <<>> ELSE sub[j][2].points

RECURSIVE aggregate_points(_, _)
\* "points = []; for key in rois.keys(): points += roi.points", from sub-region j on
aggregate_points(sub, j) ==
    IF j > Len(sub) THEN <<>>
    ELSE sub[j][2].points \o aggregate_points(sub, j + 1)

\* self[item] -> [err, roi]
getitem(rs, aggregate, item) ==
    LET none == MkROI("", "", 0, <<>>) IN
    IF aggregate
    THEN IF ~DictHas(rs, KeyOf(item)) THEN [err |-> "KeyError", roi |-> none]
         ELSE LET points == aggregate_points(DictGet(rs, KeyOf(item)), 1)
              IN [err |-> "none", roi |-> MkROI(KeyOf(item), "", Len(points), points)]
    ELSE LET nm == extract_name(item) IN
         IF nm.err # "none" THEN [err |-> nm.err, roi |-> none]
         ELSE IF ~DictHas(rs, KeyOf(nm.roi_name)) THEN [err |-> "KeyError", roi |-> none]
         ELSE IF ~DictHas(DictGet(rs, KeyOf(nm.roi_name)), KeyOf(nm.sub_name))
         THEN [err |-> "KeyError", roi |-> none]
         ELSE [err |-> "none",
               roi |-> DictGet(DictGet(rs, KeyOf(nm.roi_name)), KeyOf(nm.sub_name))]

\* self.get_histogram() -> [cache, val]: self.histogram after the call and the map
\* returned; the names read from a file are no interned strings
roi_get_histogram(rs, cache) ==
    IF ~cache.set
    THEN LET h == get_histogram(RoiList([rois |-> rs]), Keys(rs), TRUE, FALSE).map
         IN [cache |-> [set |-> TRUE, map |-> h], val |-> h]
    ELSE [cache |-> cache, val |-> cache.map]

\* self[item]
GetItem(item) ==
    /\ ds_pc = "live" /\ ops < MaxOps
    /\ LET r == getitem(rois, use_aggregate, item)
       IN /\ returned' = [kind |-> IF r.err = "none" THEN "roi" ELSE "error",
                          of |-> item, val |-> r.roi]
          /\ Called("getitem", "", r.err)
    /\ UNCHANGED <<file, norm_file, rois, num_bands, is_normalized, is_loaded, minimums,
                   maximums, means, standard_deviations, ds_pc, use_aggregate,
                   self_histogram>>
    /\ UNCHANGED <<nbrVars, histVars, parseVars, rgbVars, smpVars, fpVars>>

\* self.get_histogram()
RoiGetHistogram ==
    /\ ds_pc = "live" /\ ops < MaxOps
    /\ LET r == roi_get_histogram(rois, self_histogram)
       IN /\ self_histogram' = r.cache
          /\ returned' = [kind |-> "histogram", of |-> <<>>, val |-> r.val]
          /\ Called("get_histogram", "", "none")
    /\ UNCHANGED <<file, norm_file, rois, num_bands, is_normalized, is_loaded, minimums,
                   maximums, means, standard_deviations, ds_pc, use_aggregate>>
    /\ UNCHANGED <<nbrVars, histVars, parseVars, rgbVars, smpVars, fpVars>>

-----------------------------------------------------------------------------
(* RegionOfInterest/region.py: ROI.sort and ROI.find_point *)

\* the key of sort for the modes 'xy' and 'x-y': (p.X, p.Y), compared as tuples
KeyLess(a, b) == a.X < b.X \/ (a.X = b.X /\ a.Y < b.Y)

\* e put into the sorted list srt behind every element that is not greater
insert_sorted(srt, e) ==
    LET k == Cardinality({h \in 1..Len(srt) : ~KeyLess(e, srt[h])})
    IN SubSeq(srt, 1, k) \o <<e>> \o SubSeq(srt, k + 1, Len(srt))

RECURSIVE sorted_from(_, _, _)
sorted_from(srt, pts, p) ==
    IF p > Len(pts) THEN srt ELSE sorted_from(insert_sorted(srt, pts[p]), pts, p + 1)

\* sorted(self.points, key=expression): a stable sort
sorted(pts) == sorted_from(<<>>, pts, 1)

\* the modes sort and find_point are called with; sort knows both, select_params
\* raises for 'xy'
SearchModes == {"x-y", "xy"}

select_params(mode) == IF mode = "x-y" THEN "none" ELSE "Exception"

NotFound == [kind |-> "None", at |-> None]

\* (point_x - x) ** 2 + (point_y - y) ** 2
dist2(pt, x, y) == (pt.X - x) * (pt.X - x) + (pt.Y - y) * (pt.Y - y)

RECURSIVE linear_from(_, _, _, _, _, _)
\* the loop of _linear_search from position p on; best is closest_point (None or
\* a position)
linear_from(pts, x, y, closest, p, best) ==
    IF p > Len(pts)
    THEN IF best = None THEN NotFound ELSE [kind |-> "point", at |-> best]
    ELSE IF pts[p].X = x /\ pts[p].Y = y THEN [kind |-> "point", at |-> p]
    ELSE IF closest /\ (best = None \/ dist2(pts[p], x, y) < dist2(pts[best], x, y))
    THEN linear_from(pts, x, y, closest, p + 1, p)
    ELSE linear_from(pts, x, y, closest, p + 1, best)

\* _linear_search(x, y, mode, closest)
linear_search(pts, x, y, mode, closest) ==
    IF select_params(mode) # "none" THEN [kind |-> "Exception", at |-> None]
    ELSE linear_from(pts, x, y, closest, 1, None)

\* one pass of "while i != j" of _binary_search -> [ret, i, j, point]; ret tells
\* whether the pass returned the point
binary_step(pts, x, y, i, j) ==
    LET search_index == (i + j) \div 2
        pt == pts[search_index + 1]
    IN IF pt.X = x
       THEN IF pt.Y = y THEN [ret |-> TRUE, i |-> i, j |-> j, point |-> search_index + 1]
            ELSE IF pt.Y > y
            THEN [ret |-> FALSE, i |-> search_index, j |-> j, point |-> search_index + 1]
            ELSE [ret |-> FALSE, i |-> i, j |-> search_index, point |-> search_index + 1]
       ELSE IF pt.X > x
       THEN [ret |-> FALSE, i |-> search_index, j |-> j, point |-> search_index + 1]
       ELSE [ret |-> FALSE, i |-> i, j |-> search_index, point |-> search_index + 1]

FpIdle ==
    /\ roi_points = <<>>
    /\ sorted_mode = ""
    /\ query = [x |-> 0, y |-> 0, mode |-> "", closest |-> FALSE]
    /\ bs_i = 0
    /\ bs_j = 0
    /\ bs_point = None
    /\ found = [kind |-> "none", at |-> None]
    /\ fp_pc = "idle"

\* the point lists of a region: identity is the place of the point in the file
RegionPoints ==
    {[p \in 1..Len(l) |-> [identity |-> p, X |-> l[p].X, Y |-> l[p].Y]] :
        l \in SeqsUpTo(Points, MaxRegion)}

\* ROI(name, sub_name, rgb, num_points, points)
FpInit ==
    /\ roi_points \in RegionPoints
    /\ sorted_mode = ""
    /\ query = [x |-> 0, y |-> 0, mode |-> "", closest |-> FALSE]
    /\ bs_i = 0
    /\ bs_j = 0
    /\ bs_point = None
    /\ found = [kind |-> "none", at |-> None]
    /\ fp_pc = "ready"

\* self.sort(mode)
Sort(mode) ==
    /\ fp_pc = "ready"
    /\ roi_points' = sorted(roi_points)
    /\ sorted_mode' = mode
    /\ UNCHANGED <<query, bs_i, bs_j, bs_point, found, fp_pc>>
    /\ UNCHANGED <<nbrVars, histVars, dsVars, parseVars, rgbVars, smpVars>>

\* self.find_point(x, y, mode, closest), up to the loop of _binary_search
FindPoint(x, y, mode, closest) ==
    /\ fp_pc = "ready"
    /\ query' = [x |-> x, y |-> y, mode |-> mode, closest |-> closest]
    /\ IF sorted_mode = mode /\ select_params(mode) = "none"
       THEN /\ bs_i' = 0
            /\ bs_j' = Len(roi_points)
            /\ bs_point' = None
            /\ fp_pc' = "search"
            /\ UNCHANGED found
       ELSE /\ found' = IF sorted_mode = mode THEN [kind |-> "Exception", at |-> None]
                        ELSE linear_search(roi_points, x, y, mode, closest)
            /\ fp_pc' = "done"
            /\ UNCHANGED <<bs_i, bs_j, bs_point>>
    /\ UNCHANGED <<roi_points, sorted_mode>>
    /\ UNCHANGED <<nbrVars, histVars, dsVars, parseVars, rgbVars, smpVars>>

\* one test of "while i != j" with the pass it leads to, or the return after the loop
BinarySearchStep ==
    /\ fp_pc = "search"
    /\ IF bs_i # bs_j
       THEN LET r == binary_step(roi_points, query.x, query.y, bs_i, bs_j)
            IN /\ bs_i' = r.i
               /\ bs_j' = r.j
               /\ bs_point' = r.point
               /\ IF r.ret
                  THEN found' = [kind |-> "point", at |-> r.point] /\ fp_pc' = "done"
                  ELSE UNCHANGED <<found, fp_pc>>
       ELSE /\ found' = IF query.closest /\ bs_point # None
                        THEN [kind |-> "point", at |-> bs_point]
                        ELSE NotFound
            /\ fp_pc' = "done"
            /\ UNCHANGED <<bs_i, bs_j, bs_point>>
    /\ UNCHANGED <<roi_points, sorted_mode, query>>
    /\ UNCHANGED <<nbrVars, histVars, dsVars, parseVars, rgbVars, smpVars>>

-----------------------------------------------------------------------------
(* Specifications *)

NbrNext == GetNeighbors
InitNeighbors == NbrInit /\ HistIdle /\ DsIdle /\ ParseIdle /\ RgbIdle /\ SmpIdle /\ FpIdle
SpecNeighbors == InitNeighbors /\ [][NbrNext]_vars

HistNext == GetHistogram
InitHistogram == HistInit /\ NbrIdle /\ DsIdle /\ ParseIdle /\ RgbIdle /\ SmpIdle /\ FpIdle
SpecHistogram == InitHistogram /\ [][HistNext]_vars

DsNext ==
    \/ \E read_data \in BOOLEAN, with_norm \in BOOLEAN, mode \in ModeInputs,
          normalize_arg \in BOOLEAN, flag \in BOOLEAN :
            Construct(read_data, TRUE, with_norm, mode, normalize_arg, flag)
    \/ LoadData
    \/ \E force_load \in BOOLEAN : GetAll(force_load)
    \/ \E mode \in ModeInputs : Normalize(mode)
    \/ \E mode \in ModeInputs : Absolutize(mode)
InitDataset == DsInit /\ NbrIdle /\ HistIdle /\ ParseIdle /\ RgbIdle /\ SmpIdle /\ FpIdle
SpecDataset == InitDataset /\ [][DsNext]_vars

LookupNext ==
    \/ \E read_data \in BOOLEAN, aggregate \in BOOLEAN :
            Construct(read_data, aggregate, FALSE, "min-max", FALSE, FALSE)
    \/ LoadData
    \/ \E item \in Labels : GetItem(item)
    \/ RoiGetHistogram
InitLookup == DsInit /\ NbrIdle /\ HistIdle /\ ParseIdle /\ RgbIdle /\ SmpIdle /\ FpIdle
SpecLookup == InitLookup /\ [][LookupNext]_vars

ParseNext == ReadMetaData \/ ReadLine \/ StoreRegion \/ FinishParse
InitParse == ParseInit /\ NbrIdle /\ HistIdle /\ DsIdle /\ RgbIdle /\ SmpIdle /\ FpIdle
SpecParse == InitParse /\ [][ParseNext]_vars
\* read_data_from_file runs in the caller's thread until it returns or raises
InitParseLive == InitParse /\ Len(body) < MaxLines
SpecParseLive == InitParseLive /\ [][ParseNext]_vars /\ WF_vars(ParseNext)

RgbNext == ReadRgb
InitRgb == RgbInit /\ NbrIdle /\ HistIdle /\ DsIdle /\ ParseIdle /\ SmpIdle /\ FpIdle
SpecRgb == InitRgb /\ [][RgbNext]_vars

SmpNext == LoadDataSet
InitSampling == SmpInit /\ NbrIdle /\ HistIdle /\ DsIdle /\ ParseIdle /\ RgbIdle /\ FpIdle
SpecSampling == InitSampling /\ [][SmpNext]_vars

FindNext ==
    \/ \E mode \in SearchModes : Sort(mode)
    \/ \E x \in Coords, y \in Coords, mode \in SearchModes, closest \in BOOLEAN :
          FindPoint(x, y, mode, closest)
    \/ BinarySearchStep
InitFind == FpInit /\ NbrIdle /\ HistIdle /\ DsIdle /\ ParseIdle /\ RgbIdle /\ SmpIdle
SpecFind == InitFind /\ [][FindNext]_vars
InitFindLive == InitFind /\ Len(roi_points) < MaxRegion
SpecFindLive == InitFindLive /\ [][FindNext]_vars /\ WF_vars(FindNext)

-----------------------------------------------------------------------------
(* Claims about get_neighbors (SpecNeighbors) *)

InBox(q, p, k) ==
    /\ p.X - Half(k) <= q.X /\ q.X <= p.X + Half(k)
    /\ p.Y - Half(k) <= q.Y /\ q.Y <= p.Y + Half(k)

\* the row-major index of q in the window of size k around p
RowMajor(q, p, k) == (q.Y - (p.Y - Half(k))) * k + (q.X - (p.X - Half(k)))

CenterIndex(k) == Half(k) * k + Half(k)

SameXY(a, b) == a.X = b.X /\ a.Y = b.Y

\* no point after position i of the list has the coordinates of the point at i
LastAtItsPixel(pl, i) == \A j \in (i + 1)..Len(pl) : ~SameXY(pl[j], pl[i])

-----------------------------------------------------------------------------
(* Claims about get_histogram (SpecHistogram) *)

InList(x, l) == \E j \in 1..Len(l) : l[j] = x

TotalPoints(rl) == SumSeq([i \in 1..Len(rl) |-> Len(rl[i].points)])

\* the points of the regions named name
PointsNamed(rl, name) ==
    SumSeq([i \in 1..Len(rl) |-> IF rl[i].name = name THEN Len(rl[i].points) ELSE 0])

\* the points of the regions whose name is not in the labels
PointsUnmatched(rl, tg) ==
    SumSeq([i \in 1..Len(rl) |-> IF InList(rl[i].name, tg) THEN 0 ELSE Len(rl[i].points)])

HistSum(h) ==
    LET RECURSIVE sum(_)
        sum(S) == IF S = {} THEN 0
                  ELSE LET t == CHOOSE t \in S : TRUE IN h[t] + sum(S \ {t})
    IN sum(DOMAIN h)

SomeUnmatched(rl, tg) == \E i \in 1..Len(rl) : ~InList(rl[i].name, tg)

-----------------------------------------------------------------------------
(* Claims about normalize and absolutize (SpecDataset) *)

AllBands(rs) ==
    UNION {UNION {{roi.points[p].bands[i] : i \in 1..Len(roi.points[p].bands)} :
                    p \in 1..Len(roi.points)} :
             roi \in {RoiAt(rs, get_all(rs)[j]) : j \in 1..Len(get_all(rs))}}

NumPoints(rs) ==
    SumSeq([j \in 1..Len(get_all(rs)) |-> Len(RoiAt(rs, get_all(rs)[j]).points)])

\* the statistics of the mode have one entry per band, none of zero width
NonDegenerate(mode) ==
    IF is_min_max(mode)
    THEN /\ Len(minimums) = num_bands /\ Len(maximums) = num_bands
         /\ \A i \in 1..num_bands : maximums[i] # minimums[i]
    ELSE /\ Len(means) = num_bands /\ Len(standard_deviations) = num_bands
         /\ \A i \in 1..num_bands : standard_deviations[i] # Float(0)

\* for some band i the statistics have maximum[i] = minimum[i] (min-max) or
\* standard_deviation[i] = 0 (gaussian)
DegenerateBand(mode) ==
    \/ /\ is_min_max(mode)
       /\ \E i \in 1..Len(maximums) : i <= Len(minimums) /\ maximums[i] = minimums[i]
    \/ /\ is_gaussian(mode)
       /\ \E i \in 1..Len(standard_deviations) : standard_deviations[i] = Float(0)

\* the band of zero width is one of the dataset's bands
DegenerateBandOfDataset(mode) ==
    \/ /\ is_min_max(mode)
       /\ \E i \in 1..num_bands :
             i <= Len(maximums) /\ i <= Len(minimums) /\ maximums[i] = minimums[i]
    \/ /\ is_gaussian(mode)
       /\ \E i \in 1..num_bands :
             i <= Len(standard_deviations) /\ standard_deviations[i] = Float(0)

\* C5: on a loaded dataset with non-degenerate statistics, normalize(mode)
\* followed by absolutize(mode), for mode min-max and gaussian, completes
\* without error and leaves every band vector as it was before normalize.
C5_RoundTrip ==
    (/\ last.op = "absolutize" /\ prev.op = "normalize"
     /\ prev.outcome = "none"
     /\ last.mode = prev.mode /\ last.mode \in {"min-max", "gaussian"}
     /\ Len(prev.pre.rois) > 0
     /\ NonDegenerate(last.mode))
    => /\ last.outcome = "none"
       /\ rois = prev.pre.rois

\* C6: normalize on a dataset whose is_normalized flag is true is rejected with
\* an error, and neither a band value nor the flag changes.
C6_RenormalizeRejected ==
    (last.op = "normalize" /\ last.pre.is_normalized)
    => /\ last.outcome # "none"
       /\ rois = last.pre.rois
       /\ is_normalized = last.pre.is_normalized

\* C7: absolutize with mode min-max or gaussian on a dataset whose is_normalized
\* flag is false raises an error and leaves every band value and the flag
\* unchanged.
C7_AbsolutizeNeedsNormalized ==
    (/\ last.op = "absolutize"
     /\ last.mode \in {"min-max", "max-min", "gaussian", "gauss"}
     /\ ~last.pre.is_normalized)
    => /\ last.outcome # "none"
       /\ rois = last.pre.rois
       /\ is_normalized = FALSE

C7_Witness ==
    /\ ds_pc = "live"
    /\ last.op = "absolutize" /\ last.mode = "gaussian"
    /\ ~last.pre.is_normalized
    /\ NumPoints(rois) = 3
    /\ last.outcome = "Exception"
    /\ prev.op = "load_data"

\* C8: when some band has maximum = minimum (min-max) or standard deviation 0
\* (gaussian), normalize ends in an error and no band holds a non-finite value.
C8_DegenerateBandRaises ==
    (last.op = "normalize" /\ DegenerateBand(last.mode))
    => /\ last.outcome # "none"
       /\ \A v \in AllBands(rois) : IsFinite(v)

\* What holds of the code: the division by zero is reached, and raises, when the
\* band of zero width is one of the dataset's bands and the dataset holds a point.
DegenerateBandRaisesWithPoints ==
    (/\ last.op = "normalize" /\ DegenerateBandOfDataset(last.mode)
     /\ NumPoints(last.pre.rois) > 0)
    => /\ last.outcome # "none"
       /\ \A v \in AllBands(rois) : IsFinite(v)


-----------------------------------------------------------------------------
(* Claims about the parser (SpecParse) *)

\* the points of the record lines of the file, in file order
RECURSIVE Records(_, _)
Records(lines, j) ==
    IF j > Len(lines) THEN <<>>
    ELSE IF lines[j].kind = "rec" THEN <<lines[j].point>> \o Records(lines, j + 1)
    ELSE Records(lines, j + 1)

\* the records declared by the regions before region j
Offset(hdr, j) == SumSeq([h \in 1..(j - 1) |-> hdr[h].num_points])

\* the region declared at position j of the header, with its records
DeclaredRegion(hdr, lines, j) ==
    LET nm == extract_name(hdr[j].raw_name) IN
    MkROI(nm.roi_name, nm.sub_name, hdr[j].num_points,
          SubSeq(Records(lines, 1), Offset(hdr, j) + 1, Offset(hdr, j) + hdr[j].num_points))

\* The dataset the model of RegionsOfInterest loads is the parser's result.
ParsedFileIsParserResult ==
    parse_pc = "done" => results = ParsedFile(meta_rois)

\* C9: after a successful parse of a file declaring N regions, get_all() has
\* exactly N regions, whatever the raw region names are.
C9_RegionCount ==
    parse_pc = "done" => Len(get_all(results.rois)) = Len(header)

\* C10: after parsing, every region the dataset returns holds exactly its
\* declared number of points, which are the records of the file that follow
\* those of the regions declared before it, in file order; blank lines between
\* records are not counted as records.
C10_DeclaredPoints ==
    parse_pc = "done" =>
        LET all == get_all(results.rois) IN
        \A r \in 1..Len(all) :
            LET roi == RoiAt(results.rois, all[r]) IN
            /\ Len(roi.points) = roi.num_points
            /\ \E j \in 1..Len(header) : roi = DeclaredRegion(header, body, j)

C10_Witness ==
    /\ parse_pc = "done"
    /\ Len(header) = 1
    /\ header[1].num_points = 2
    /\ Len(body) = 3
    /\ body[1].kind = "rec" /\ body[2].kind = "blank" /\ body[3].kind = "rec"
    /\ Len(get_all(results.rois)) = 1
    /\ RoiAt(results.rois, <<1, 1>>).points = <<body[1].point, body[3].point>>

\* C11: after a successful parse, the band vector of every point of every
\* region has the length of the dataset's num_bands.
C11_BandCount ==
    parse_pc = "done" =>
        LET all == get_all(results.rois) IN
        \A r \in 1..Len(all) :
            LET roi == RoiAt(results.rois, all[r]) IN
            \A q \in 1..Len(roi.points) : Len(roi.points[q].bands) = results.num_bands

\* the token has the character c
Has(token, c) == \E j \in 1..Len(token) : token[j] = c

FirstIndex(token, S) ==
    CHOOSE j \in 1..Len(token) : token[j] \in S /\ \A h \in 1..(j - 1) : token[h] \notin S

\* the name and the sub-name C12 states for a token
StatedName(token) ==
    IF Has(token, "_")
    THEN [err |-> "none",
          roi_name |-> SubSeq(token, 1, FirstIndex(token, {"_"}) - 1),
          sub_name |-> SubSeq(token, FirstIndex(token, {"_"}) + 1, Len(token))]
    ELSE IF \E d \in Digits : Has(token, d)
    THEN [err |-> "none",
          roi_name |-> SubSeq(token, 1, FirstIndex(token, Digits) - 1),
          sub_name |-> SubSeq(token, FirstIndex(token, Digits), Len(token))]
    ELSE [err |-> "none", roi_name |-> token, sub_name |-> <<>>]

\* C12: extract_name splits the last token of the name line at the first
\* underscore, everything after it being the sub-name; without an underscore at
\* the first digit; a token with neither is the name, with an empty sub-name.
C12_ExtractName ==
    parse_pc \notin {"idle", "meta"} =>
        \A j \in 1..Len(header) :
            extract_name(header[j].raw_name) = StatedName(header[j].raw_name)

\* the file has fewer records than its regions declare
ShortFile == Len(Records(body, 1)) < Offset(header, Len(header) + 1)

\* C14: parsing a file that ends before all declared records were read ends
\* with a parsing error and returns no dataset; it does not wait for lines.
C14_ShortFileFails ==
    [](ShortFile => <>(parse_pc = "error" /\ results = NoResults))

-----------------------------------------------------------------------------
(* Claims about the RGB line (SpecRgb) *)

\* the numeral between the punctuation of a token
Numeral(token) == SelectSeq(token, LAMBDA c : c \in Digits)

\* C13: for an RGB line "{r, g, b}" with r, g, b of one to three digits, the
\* region's RGB tag is the three integers r, g, b.
C13_RgbTag ==
    rgb_pc = "done" =>
        /\ roi_rgb.err = "none"
        /\ roi_rgb.rgb = <<int_of(Numeral(roi_rgb_string[1])),
                           int_of(Numeral(roi_rgb_string[2])),
                           int_of(Numeral(roi_rgb_string[3]))>>

\* What holds of the code: the tag is the first digit of each of r, g, b.
RgbTagIsFirstDigits ==
    rgb_pc = "done" =>
        /\ roi_rgb.err = "none"
        /\ roi_rgb.rgb = <<int_of(<<Numeral(roi_rgb_string[1])[1]>>),
                           int_of(<<Numeral(roi_rgb_string[2])[1]>>),
                           int_of(<<Numeral(roi_rgb_string[3])[1]>>)>>

-----------------------------------------------------------------------------
(* Claims about the sampler (SpecSampling) *)

SmpRois == RoiList(roi_obj)

\* the region a sample was built from
RegionOf(smp) ==
    SmpRois[CHOOSE r \in 1..Len(SmpRois) :
                SmpRois[r].name = smp.of[1] /\ SmpRois[r].sub_name = smp.of[2]]

\* the bands slot s of a sample of window size k holds, for a band count bc
Segment(smp, s, bc) == SubSeq(smp.input, (s - 1) * bc + 1, s * bc)

SlotsHoldNeighbors(smp, k, bc) ==
    LET pts == RegionOf(smp).points
        nb  == get_neighbors(smp.of[3], pts, k).list
    IN \A s \in 1..(k * k) :
          Segment(smp, s, bc) = IF nb[s] = None THEN [i \in 1..bc |-> Float(0)]
                                ELSE pts[nb[s]].bands

\* C15: every sample emitted for window size k is a flat vector of
\* k*k*band_count numbers; slot i of the neighborhood occupies the positions
\* [i*band_count, (i+1)*band_count), with the neighbor's bands, or zeros for a
\* null slot.
C15_FlatSample ==
    smp_pc = "done" =>
        \A n \in 1..Len(data_set.samples) :
            /\ Len(data_set.samples[n].input)
                  = neighborhood_size * neighborhood_size * roi_obj.num_bands
            /\ SlotsHoldNeighbors(data_set.samples[n], neighborhood_size, roi_obj.num_bands)

\* every point of the dataset has num_bands bands
UniformBands ==
    \A r \in 1..Len(SmpRois) : \A q \in 1..Len(SmpRois[r].points) :
        Len(SmpRois[r].points[q].bands) = roi_obj.num_bands

\* What holds of the code: the layout is the stated one on a dataset whose
\* points all have num_bands bands.
FlatSampleOnUniformBands == UniformBands => C15_FlatSample

\* the ratio the caller gave for a key of the target list
RatioOf(key) ==
    smp_ratios.list[CHOOSE j \in 1..Len(data_set.targets) :
                        /\ data_set.targets[j] = key
                        /\ \A h \in (j + 1)..Len(data_set.targets) : data_set.targets[h] # key]

\* the points available for a class
Available(key) ==
    IF key = "background"
    THEN PointsUnmatched(SmpRois, data_set.targets) + PointsNamed(SmpRois, "background")
    ELSE PointsNamed(SmpRois, key)

\* the least of a non-empty set of rationals
RatMin(S) == CHOOSE m \in S : \A x \in S : m[1] * x[2] <= x[1] * m[2]

SizesKnown == smp_pc = "done" /\ DOMAIN data_set.feasible_sizes # {}

BaseCount(m, keys) ==
    /\ \A key \in keys : m * RatioOf(key)[1] <= Available(key) * RatioOf(key)[2]
    /\ \E key \in keys : (m + 1) * RatioOf(key)[1] > Available(key) * RatioOf(key)[2]

Clamp01(x) ==
    IF x[1] < 0 THEN Float(0) ELSE IF x[1] > x[2] THEN Float(1) ELSE x

\* C17: the retention probability of a target t is
\* clamp(feasibleBackground * ratio[t] / histogram[t], 0, 1), and that of
\* background is feasibleBackground / histogram['background'].
C17_Probabilities ==
    (smp_pc = "done" /\ DOMAIN data_set.probabilities # {}) =>
        LET fb == data_set.feasible_sizes["background"] IN
        \A t \in DOMAIN data_set.probabilities :
            data_set.probabilities[t] =
                IF t = "background" THEN Rat(fb, Available("background"))
                ELSE Clamp01(Rat(fb * RatioOf(t)[1], RatioOf(t)[2] * Available(t)))

\* the caller names each target once, leaves 'background' to the loader and
\* gives one ratio per class
PlainRatioCall ==
    /\ smp_ratios.given
    /\ have_background
    /\ \A j \in 1..Len(smp_targets) : smp_targets[j] # "background"
    /\ \A j, h \in 1..Len(smp_targets) : smp_targets[j] = smp_targets[h] => j = h
    /\ Len(smp_ratios.list) = Len(smp_targets) + 1

\* C18: when the ratios are infeasible for the population (a target with no
\* point, no background point), the sampler warns and returns a sample set; it
\* does not abort with an error.
C18_NoAbort ==
    (smp_pc = "done" /\ smp_module = "data_management" /\ PlainRatioCall /\ UniformBands)
        => data_set.err = "none"

\* the sample was built from a region that is no target
FromBackground(smp) == ~IsTarget(smp_targets, smp.of[1])

OnlyTargetLabels ==
    have_background /\ \A j \in 1..Len(smp_targets) : smp_targets[j] # "background"

ClassOf(smp) ==
    IF IsTarget(data_set.targets, smp.of[1]) THEN smp.of[1] ELSE "background"

\* C20: every sample added, in the ratio-constrained and in the unconstrained
\* path, carries one integer label, the index of its class in the target list,
\* in 0..len(targets)-1.
C20_IntegerLabels ==
    smp_pc = "done" =>
        \A n \in 1..Len(data_set.samples) :
            LET smp == data_set.samples[n] IN
            /\ smp.target.name = ""
            /\ smp.target.index \in 0..(Len(data_set.targets) - 1)
            /\ data_set.targets[smp.target.index + 1] = ClassOf(smp)

\* What holds of the code: the labels of the ratio-constrained path are indices.
IntegerLabelsWithRatios == smp_ratios.given => C20_IntegerLabels


\* the samples built for point p of region r
SamplesOf(r, p) ==
    {n \in 1..Len(data_set.samples) :
        data_set.samples[n].of = <<SmpRois[r].name, SmpRois[r].sub_name, p>>}

\* the retention probability of the class of region r
RetentionOf(r) ==
    data_set.probabilities[IF IsTarget(data_set.targets, SmpRois[r].name)
                           THEN SmpRois[r].name ELSE "background"]

SampledWithRatios == smp_pc = "done" /\ smp_ratios.given /\ data_set.err = "none"

\* C21: the sampler makes one draw per point (not per region) and emits the
\* point's sample if and only if the draw is <= the retention probability of
\* the point's class; each point yields at most one sample.
C21_PerPointDraw ==
    SampledWithRatios =>
        \A r \in 1..Len(SmpRois) :
            /\ Len(data_set.draws[r]) = Len(SmpRois[r].points)
            /\ \A p \in 1..Len(SmpRois[r].points) :
                  /\ Cardinality(SamplesOf(r, p)) <= 1
                  /\ SamplesOf(r, p) # {} <=> ~RLess(RetentionOf(r), data_set.draws[r][p])

\* What holds of data_management.py: one draw per point, and the point is kept
\* when its draw is strictly below the probability.
PerPointDrawStrictlyBelow ==
    (SampledWithRatios /\ smp_module = "data_management") =>
        \A r \in 1..Len(SmpRois) :
            /\ Len(data_set.draws[r]) = Len(SmpRois[r].points)
            /\ \A p \in 1..Len(SmpRois[r].points) :
                  /\ Cardinality(SamplesOf(r, p)) <= 1
                  /\ SamplesOf(r, p) # {} <=> RLess(data_set.draws[r][p], RetentionOf(r))

\* What holds of data_moving.py: a call that returns has added no sample, and a
\* region with points was passed over on the one draw made for it.
PerRegionDraw ==
    (SampledWithRatios /\ smp_module = "data_moving") =>
        /\ data_set.samples = <<>>
        /\ \A r \in 1..Len(SmpRois) :
              /\ Len(data_set.draws[r]) = 1
              /\ SmpRois[r].points # <<>> => RLess(RetentionOf(r), data_set.draws[r][1])


-----------------------------------------------------------------------------
(* Claims about lookup and the cached histogram (SpecLookup) *)

\* the points of the sub-regions before sub-region j of a name's dict
PointsBefore(sub, j) == SumSeq([h \in 1..(j - 1) |-> Len(sub[h][2].points)])

AggregateReturned ==
    ds_pc = "live" /\ last.op = "getitem" /\ use_aggregate /\ returned.kind = "roi"

\* C22: with aggregation on, dataset[label] returns a new region named label
\* with empty sub-name whose points are the points of all stored sub-regions
\* under that name, each once and in sub-region order, and whose declared
\* point count is their number; the stored regions are left unchanged.
C22_AggregateLookup ==
    AggregateReturned =>
        LET key == KeyOf(returned.of)
            sub == DictGet(rois, key)
            got == returned.val
        IN /\ got.name = key
           /\ got.sub_name = ""
           /\ Len(got.points) = PointsBefore(sub, Len(sub) + 1)
           /\ \A j \in 1..Len(sub) : \A q \in 1..Len(sub[j][2].points) :
                 got.points[PointsBefore(sub, j) + q] = sub[j][2].points[q]
           /\ got.num_points = Len(got.points)
           /\ rois = last.pre.rois

C22_Witness ==
    /\ AggregateReturned
    /\ Len(DictGet(rois, KeyOf(returned.of))) = 2
    /\ Len(returned.val.points) = 2


\* the two statistic lists normalize(mode) hands on
StatLists(mode) ==
    IF is_min_max(mode) THEN <<minimums, maximums>> ELSE <<means, standard_deviations>>

\* either list has a length different from num_bands
LengthMismatch(mode) ==
    \/ Len(StatLists(mode)[1]) # num_bands
    \/ Len(StatLists(mode)[2]) # num_bands

NormalizeCalled == last.op = "normalize" /\ (is_min_max(last.mode) \/ is_gaussian(last.mode))

\* C25: _normalize_min_max and _normalize_gaussian raise 'The input parameters
\* does not match the bands in the ROIs' and change no band whenever either of
\* the two statistic lists has a length different from num_bands.
C25_LengthMismatchRaises ==
    (NormalizeCalled /\ LengthMismatch(last.mode))
    => /\ last.outcome = "Exception"
       /\ rois = last.pre.rois

\* What holds of the code: the guard raises exactly when the first list has
\* another length than num_bands and the second has that length.
GuardRaisesOnFirstListOnly ==
    NormalizeCalled =>
        (last.outcome = "Exception" <=>
            /\ Len(StatLists(last.mode)[1]) # num_bands
            /\ Len(StatLists(last.mode)[2]) = num_bands)

\* C26: loading or reloading the raw data of the file never leaves raw values
\* under a true is_normalized flag: a call that replaces normalized values by
\* the values of the file ends with the flag false.
C26_RawDataClearsFlag ==
    (/\ last.op \in {"load_data", "get_all"}
     /\ NumPoints(last.pre.rois) > 0
     /\ last.pre.rois # file.rois
     /\ rois = file.rois)
    => ~is_normalized

\* What holds of the code: load_data and get_all leave the flag as it was.
LoadKeepsFlag ==
    last.op \in {"load_data", "get_all"} => is_normalized = last.pre.is_normalized

\* C27: a normalize call that ends in an error leaves every band vector and
\* the is_normalized flag as they were before the call.
C27_FailedNormalizeChangesNothing ==
    (NormalizeCalled /\ last.outcome # "none")
    => /\ rois = last.pre.rois
       /\ is_normalized = last.pre.is_normalized

\* What holds of the code: a failed normalize leaves the flag as it was.
FailedNormalizeKeepsFlag ==
    (NormalizeCalled /\ last.outcome # "none") => is_normalized = last.pre.is_normalized

\* the number of points of the regions held under a name
PointsUnder(rs, name) ==
    SumSeq([s \in 1..Len(DictGet(rs, name)) |-> Len(DictGet(rs, name)[s][2].points)])

\* the per-name point counts of the regions held
PerNameCounts(rs) == [name \in {rs[n][1] : n \in 1..Len(rs)} |-> PointsUnder(rs, name)]

\* C28: after any sequence of get_histogram and load_data calls, the map
\* get_histogram() returns is the per-name point counts of the regions the
\* dataset holds.
C28_HistogramFresh ==
    ds_pc = "live" => roi_get_histogram(rois, self_histogram).val = PerNameCounts(rois)

\* What holds of the code: the first get_histogram() of an object counts the
\* regions held.
FirstHistogramCounts ==
    (ds_pc = "live" /\ ~self_histogram.set)
        => roi_get_histogram(rois, self_histogram).val = PerNameCounts(rois)

-----------------------------------------------------------------------------
(* Claims about find_point (SpecFind, SpecFindLive) *)

\* the region holds a point with exactly the coordinates asked for
Holds(x, y) == \E p \in 1..Len(roi_points) : roi_points[p].X = x /\ roi_points[p].Y = y

\* find_point has returned from _binary_search
BinaryReturned ==
    fp_pc = "done" /\ sorted_mode = query.mode /\ select_params(query.mode) = "none"

\* C23: find_point gives the same answer on a region sorted in the query's
\* mode as on an unsorted one: if the region holds a point with exactly the
\* coordinates asked for, the binary search returns it, as the linear search
\* does.
C23_SameAnswer ==
    (BinaryReturned /\ ~query.closest) =>
        /\ found.kind = "point" <=> Holds(query.x, query.y)
        /\ found.kind = "point" =>
              /\ roi_points[found.at].X = query.x
              /\ roi_points[found.at].Y = query.y

\* What holds of the code: the linear search finds a point of the region
\* whenever there is one, and a point the binary search returns without
\* 'closest' is at the coordinates asked for.
LinearSearchFinds ==
    (fp_pc = "done" /\ sorted_mode # query.mode /\ select_params(query.mode) = "none"
        /\ ~query.closest) =>
        /\ found.kind = "point" <=> Holds(query.x, query.y)
        /\ found.kind = "point" =>
              /\ roi_points[found.at].X = query.x
              /\ roi_points[found.at].Y = query.y

BinarySearchHitsAreExact ==
    (BinaryReturned /\ ~query.closest /\ found.kind = "point") =>
        /\ roi_points[found.at].X = query.x
        /\ roi_points[found.at].Y = query.y

\* C24: find_point on a region sorted in the query's mode terminates, for
\* every content of the region and every coordinate asked for.
C24_Terminates == [](fp_pc = "search" => <>(fp_pc = "done"))


-----------------------------------------------------------------------------
(* Claims about the caller's targets list (SpecSampling) *)

\* the class index _add_samples_to_data_set gives a region for a list of class
\* labels, -1 when the region's class is no label of the list
ClassIndex(labels, roi) ==
    LET key == IF ~IsTarget(labels, roi.name) THEN "background" ELSE roi.name
    IN IF IsTarget(labels, key) THEN target_dict(labels, key) ELSE 0 - 1

\* C29: load_data_set_from_regions_of_interest leaves the caller's targets list
\* unchanged, so a second build with the same list and the same dataset gives
\* every region the class index of the first build.
C29_TargetsUnchanged ==
    smp_pc = "done" =>
        /\ targets_list = smp_targets
        /\ \A r \in 1..Len(SmpRois) :
              ClassIndex(appended_targets(targets_list, have_background), SmpRois[r])
                  = ClassIndex(data_set.targets, SmpRois[r])

\* What holds of the code: without a background class the list is left alone.
TargetsUnchangedWithoutBackground ==
    (smp_pc = "done" /\ ~have_background) => targets_list = smp_targets


-----------------------------------------------------------------------------
(* Claims about even window sizes (SpecNeighbors) *)

\* the index get_neighbors computes for the point at position i of the list
SlotIndex(i) ==
    LET p == point_list[point]
        k == num_neighbors
    IN get_index(p.X + Half(k), point_list[i].X, p.Y + Half(k), point_list[i].Y, k)

\* the slot "points[index] = p" writes: Python counts a negative index from the end
WrittenSlot(i) ==
    IF SlotIndex(i) < 0 THEN SlotIndex(i) + num_neighbors * num_neighbors ELSE SlotIndex(i)

\* the positions of the points inside the box around the queried point
Boxed == {i \in 1..Len(point_list) : InBox(point_list[i], point_list[point], num_neighbors)}

\* C30: for even k, get_neighbors never writes two points with different
\* (X, Y) inside the box into the same slot, and every slot index it computes
\* lies in 0..k*k-1.
C30_EvenWindowSlots ==
    (nbr_pc = "done" /\ num_neighbors % 2 = 0) =>
        /\ \A i \in Boxed : SlotIndex(i) \in 0..(num_neighbors * num_neighbors - 1)
        /\ \A i, j \in Boxed :
              ~SameXY(point_list[i], point_list[j]) => WrittenSlot(i) # WrittenSlot(j)

\* What holds of the code: for odd k the indices are in range and two points at
\* different pixels get different slots.
OddWindowSlots ==
    (nbr_pc = "done" /\ num_neighbors % 2 = 1) =>
        /\ \A i \in Boxed : SlotIndex(i) \in 0..(num_neighbors * num_neighbors - 1)
        /\ \A i, j \in Boxed :
              ~SameXY(point_list[i], point_list[j]) => WrittenSlot(i) # WrittenSlot(j)

=============================================================================
